---------------------------- MODULE Spec2Model ----------------------------
(***************************************************************************)
(* ksuidx: namespaced KSUIDs (src/ksuidx.go).                              *)
(*                                                                         *)
(* An ID is a 3-byte Namespace followed by a 20-byte ksuid.KSUID.  Bytes   *)
(* are the naturals 0..255; a Go string or []byte is a sequence of bytes.  *)
(* The caller of the package holds one ID (val) and one buffer (buf); the  *)
(* actions are the package's exported operations applied to them.          *)
(*                                                                         *)
(* github.com/segmentio/ksuid is a dependency: its operations are modelled *)
(* at the places ksuidx.go calls them.  Its base-62 codec works on 32-bit  *)
(* limbs with 64-bit intermediates; here the same schoolbook division runs *)
(* on 8-bit limbs, which computes the same digits and fits TLC's integers. *)
(***************************************************************************)
EXTENDS Integers, Sequences, FiniteSets, TLC

VARIABLES val, err, op, buf, bufOp, bufOf

vars == <<val, err, op, buf, bufOp, bufOf>>

---------------------------------------------------------------------------
(* Constants of the package                                                *)

byteLength == 23

baseLength == 20

nsLength == byteLength - baseLength

stringEncodedLength == 30

\* ksuid's custom epoch, seconds after the Unix epoch (2014-05-13).
epochStamp == 1400000000

\* Number of distinct 16-byte random payloads the entropy source may return.
NumPayloads == 2

---------------------------------------------------------------------------
(* Byte-string helpers                                                     *)

Zeros(n) == [k \in 1..n |-> 0]

Repeat(c, n) == [k \in 1..n |-> c]

\* Go's s[lo:hi] on a string or slice (0-based, hi exclusive).
Slice(s, lo, hi) == SubSeq(s, lo + 1, hi)

\* A Go call that returns (value, error) is the pair <<value, error>>.
Val(r) == r[1]

Err(r) == r[2]

\* The '"' that MarshalJSON puts around the string form.
Quote == 34

\* "unk", "bla", "a\"b", and a namespace that is not ASCII text at all.
str_unk == <<117, 110, 107>>

str_bla == <<98, 108, 97>>

str_aqb == <<97, Quote, 98>>

str_raw == <<0, 255, 92>>

str_too_long == <<116, 111, 111, 45, 108, 111, 110, 103>>

str_blah == <<98, 108, 97, 104>>

str_invalid_ksuid == <<105, 110, 118, 97, 108, 105, 100, 45, 107, 115, 117, 105, 100>>

str_null == <<110, 117, 108, 108>>

str_true == <<116, 114, 117, 101>>

str_123 == <<49, 50, 51>>

---------------------------------------------------------------------------
(* Times and entropy                                                       *)

\* Unix seconds handed to NewRandomWithTime: the custom epoch itself, the
\* second after it, and 256 seconds before it (the uint32 timestamp wraps to
\* 2^32 - 256).
Times == {epochStamp, epochStamp + 1, epochStamp - 256}

\* time.Now() as New and NewRandom read it.
Now == epochStamp + 1

\* What the entropy source returns; payload 0 is sixteen zero bytes.
Payload(k) == [j \in 1..16 |-> (k * (16 + j) * 15) % 256]

Payloads == {Payload(k) : k \in 0..(NumPayloads - 1)}

---------------------------------------------------------------------------
(* github.com/segmentio/ksuid, as used by ksuidx.go                        *)

\* The all-zero KSUID, ksuid.Nil.
ksuidNil == Zeros(baseLength)

\* The character of a base-62 digit in "0-9A-Za-z".
base62Character(d) ==
    IF d < 10 THEN 48 + d ELSE IF d < 36 THEN 65 + (d - 10) ELSE 97 + (d - 36)

\* The digit of a character; any byte outside 0-9 and A-Z falls into the
\* lowercase branch, in byte arithmetic.
base62Value(c) ==
    IF c >= 48 /\ c <= 57 THEN c - 48
    ELSE IF c >= 65 /\ c <= 90 THEN 10 + (c - 65)
    ELSE (36 + c + 256 - 97) % 256

\* One pass of schoolbook division of the digit string bp (base srcBase) by
\* dstBase: <<the quotient without leading zeros, the remainder>>.
RECURSIVE DivPass(_, _, _, _, _, _)
DivPass(bp, k, remainder, quotient, srcBase, dstBase) ==
    IF k > Len(bp) THEN <<quotient, remainder>>
    ELSE LET value == bp[k] + remainder * srcBase
             digit == value \div dstBase
         IN DivPass(bp, k + 1, value % dstBase,
                    IF Len(quotient) # 0 \/ digit # 0
                    THEN Append(quotient, digit) ELSE quotient,
                    srcBase, dstBase)

RECURSIVE EncodeLoop(_, _)
EncodeLoop(bp, out) ==
    IF Len(bp) = 0 THEN out
    ELSE LET p == DivPass(bp, 1, 0, <<>>, 256, 62)
         IN EncodeLoop(p[1], <<base62Character(p[2])>> \o out)

\* The 27 base-62 characters of 20 bytes, most significant first, padded
\* on the left with '0'.
fastEncodeBase62(src) ==
    LET digits == EncodeLoop(src, <<>>)
    IN Repeat(48, (stringEncodedLength - nsLength) - Len(digits)) \o digits

\* n is the room left in the 20-byte destination; a value that does not fit
\* is an error.
RECURSIVE DecodeLoop(_, _, _)
DecodeLoop(bp, out, n) ==
    IF Len(bp) = 0 THEN <<Zeros(n) \o out, "nil">>
    ELSE IF n < 1 THEN <<<<>>, "errShortBuffer">>
    ELSE LET p == DivPass(bp, 1, 0, <<>>, 62, 256)
         IN DecodeLoop(p[1], <<p[2]>> \o out, n - 1)

fastDecodeBase62(src) ==
    DecodeLoop([k \in 1..Len(src) |-> base62Value(src[k])], <<>>, baseLength)

\* binary.BigEndian.PutUint32(uint32(d)) for a signed 64-bit difference d,
\* -2^31 <= d < 2^31: a negative d wraps to d + 2^32.
PutUint32(d) ==
    LET e == IF d >= 0 THEN d ELSE (d + 2147483647) + 1
        top == IF d >= 0 THEN 0 ELSE 128
    IN <<top + (e \div 16777216), (e \div 65536) % 256, (e \div 256) % 256, e % 256>>

\* The codec is a pure function: its values on the KSUIDs that minting can
\* produce are computed once and looked up afterwards.
MintableKSUIDs ==
    {ksuidNil} \cup {PutUint32(t - epochStamp) \o p : t \in Times, p \in Payloads}

EncodeTable == [k \in MintableKSUIDs |-> fastEncodeBase62(k)]

DecodeTable ==
    [s \in {EncodeTable[k] : k \in MintableKSUIDs} |-> fastDecodeBase62(s)]

EncodeBase62(k) ==
    IF k \in MintableKSUIDs THEN EncodeTable[k] ELSE fastEncodeBase62(k)

DecodeBase62(s) ==
    IF s \in DOMAIN DecodeTable THEN DecodeTable[s] ELSE fastDecodeBase62(s)

\* ksuid.FromBytes: exactly 20 bytes, copied.
ksuidFromBytes(b) ==
    IF Len(b) # baseLength THEN <<ksuidNil, "ksuid.errSize">>
    ELSE <<b, "nil">>

\* ksuid.Parse: exactly 27 characters whose base-62 value fits 20 bytes.
ksuidParse(s) ==
    IF Len(s) # stringEncodedLength - nsLength
    THEN <<ksuidNil, "ksuid.errStrSize">>
    ELSE LET d == DecodeBase62(s)
         IN IF Err(d) # "nil" THEN <<ksuidNil, "ksuid.errStrValue">>
            ELSE ksuidFromBytes(Val(d))

\* KSUID.Append: appends the 27-character string form.
ksuidAppend(k, b) == b \o EncodeBase62(k)

\* KSUID.String.
ksuidString(k) == ksuidAppend(k, <<>>)

\* KSUID.IsNil.
ksuidIsNil(k) == k = ksuidNil

\* ksuid.NewRandomWithTime: the timestamp is uint32(t.Unix() - epochStamp),
\* big-endian, followed by 16 bytes read from the entropy source, whose
\* failure is returned.
ksuidNewRandomWithTime(t, payload, randOk) ==
    IF ~randOk THEN <<ksuidNil, "rand">>
    ELSE <<PutUint32(t - epochStamp) \o payload, "nil">>

\* KSUID.Timestamp: the uint32 in bytes [0,4), here as two 16-bit limbs
\* <<high, low>>.  KSUID.Time is time.Unix(int64(timestamp) + epochStamp, 0),
\* so times are ordered as their timestamps are.
ksuidTimestamp(k) == <<k[1] * 256 + k[2], k[3] * 256 + k[4]>>

\* time.Time.Before on two such times.
Before(t1, t2) == t1[1] < t2[1] \/ (t1[1] = t2[1] /\ t1[2] < t2[2])

---------------------------------------------------------------------------
(* encoding/json, as used by UnmarshalJSON: json.Unmarshal(b, &s) for a    *)
(* string s.  Exact for documents that are one string literal, null, true, *)
(* false or an integer, and for the malformed documents supplied below.    *)

IsSpace(c) == c \in {32, 9, 13, 10}

IsHex(c) == (c >= 48 /\ c <= 57) \/ (c >= 65 /\ c <= 70) \/ (c >= 97 /\ c <= 102)

HexVal(c) == IF c <= 57 THEN c - 48 ELSE IF c <= 70 THEN c - 55 ELSE c - 87

IsCont(b, k) == k <= Len(b) /\ b[k] >= 128 /\ b[k] <= 191

\* utf8.DecodeRune at b[k], a byte >= 0x80: the length of the valid
\* sequence that starts there, or 0.
Utf8Len(b, k) ==
    LET c == b[k]
        c2 == IF k + 1 <= Len(b) THEN b[k + 1] ELSE 0
    IN IF c >= 194 /\ c <= 223 THEN (IF IsCont(b, k + 1) THEN 2 ELSE 0)
       ELSE IF c >= 224 /\ c <= 239
       THEN (IF c2 >= (IF c = 224 THEN 160 ELSE 128)
                /\ c2 <= (IF c = 237 THEN 159 ELSE 191)
                /\ IsCont(b, k + 2) THEN 3 ELSE 0)
       ELSE IF c >= 240 /\ c <= 244
       THEN (IF c2 >= (IF c = 240 THEN 144 ELSE 128)
                /\ c2 <= (IF c = 244 THEN 143 ELSE 191)
                /\ IsCont(b, k + 2) /\ IsCont(b, k + 3) THEN 4 ELSE 0)
       ELSE 0

\* U+FFFD in UTF-8.
RuneError == <<239, 191, 189>>

\* utf8.EncodeRune.
EncodeRune(r) ==
    IF r < 128 THEN <<r>>
    ELSE IF r < 2048 THEN <<192 + (r \div 64), 128 + (r % 64)>>
    ELSE IF r >= 55296 /\ r <= 57343 THEN RuneError
    ELSE IF r < 65536
    THEN <<224 + (r \div 4096), 128 + ((r \div 64) % 64), 128 + (r % 64)>>
    ELSE <<240 + (r \div 262144), 128 + ((r \div 4096) % 64),
           128 + ((r \div 64) % 64), 128 + (r % 64)>>

\* getu4: the code unit of a \uXXXX escape at b[k], or -1.
getu4(b, k) ==
    IF k + 5 <= Len(b) /\ b[k] = 92 /\ b[k + 1] = 117
       /\ \A j \in 2..5 : IsHex(b[k + j])
    THEN HexVal(b[k + 2]) * 4096 + HexVal(b[k + 3]) * 256
         + HexVal(b[k + 4]) * 16 + HexVal(b[k + 5])
    ELSE -1

\* The simple escapes: the byte that follows the backslash |-> its value.
SimpleEscape(e) ==
    CASE e = 34 -> 34 [] e = 92 -> 92 [] e = 47 -> 47 [] e = 98 -> 8
      [] e = 102 -> 12 [] e = 110 -> 10 [] e = 114 -> 13 [] e = 116 -> 9
      [] OTHER -> -1

\* The scanner and unquote on a string literal whose opening quote is at
\* b[k-1]: <<ok, the decoded string, the index after the closing quote>>.
RECURSIVE ScanString(_, _, _)
ScanString(b, k, out) ==
    IF k > Len(b) THEN <<FALSE, <<>>, k>>
    ELSE LET c == b[k] IN
      IF c = Quote THEN <<TRUE, out, k + 1>>
      ELSE IF c < 32 THEN <<FALSE, <<>>, k>>
      ELSE IF c = 92 THEN
        IF k + 1 > Len(b) THEN <<FALSE, <<>>, k>>
        ELSE IF b[k + 1] = 117 THEN
          LET rr == getu4(b, k)
              rr1 == getu4(b, k + 6)
          IN IF rr < 0 THEN <<FALSE, <<>>, k>>
             ELSE IF rr >= 55296 /\ rr <= 56319 /\ rr1 >= 56320 /\ rr1 <= 57343
             THEN ScanString(b, k + 12,
                    out \o EncodeRune(65536 + (rr - 55296) * 1024 + (rr1 - 56320)))
             ELSE ScanString(b, k + 6, out \o EncodeRune(rr))
        ELSE IF SimpleEscape(b[k + 1]) < 0
             THEN <<FALSE, <<>>, k>>
             ELSE ScanString(b, k + 2, Append(out, SimpleEscape(b[k + 1])))
      ELSE IF c < 128 THEN ScanString(b, k + 1, Append(out, c))
      ELSE LET n == Utf8Len(b, k)
           IN IF n = 0 THEN ScanString(b, k + 1, out \o RuneError)
              ELSE ScanString(b, k + n, out \o SubSeq(b, k, k + n - 1))

IsIntegerLiteral(t) ==
    LET d == IF Len(t) > 0 /\ t[1] = 45 THEN Tail(t) ELSE t
    IN /\ Len(d) > 0
       /\ \A k \in 1..Len(d) : d[k] >= 48 /\ d[k] <= 57
       /\ (Len(d) > 1 => d[1] # 48)

\* json.Unmarshal(b, &s) with s == "" before the call: null leaves s alone.
jsonUnmarshalString(b) ==
    LET idx == {k \in 1..Len(b) : ~IsSpace(b[k])}
    IN IF idx = {} THEN <<<<>>, "json.SyntaxError">>
       ELSE LET lo == CHOOSE k \in idx : \A j \in idx : k <= j
                hi == CHOOSE k \in idx : \A j \in idx : k >= j
                t == SubSeq(b, lo, hi)
            IN IF t[1] = Quote
               THEN LET r == ScanString(t, 2, <<>>)
                    IN IF r[1] /\ r[3] = Len(t) + 1
                       THEN <<r[2], "nil">>
                       ELSE <<<<>>, "json.SyntaxError">>
               ELSE IF t = <<110, 117, 108, 108>> THEN <<<<>>, "nil">>
               ELSE IF t = <<116, 114, 117, 101>> \/ t = <<102, 97, 108, 115, 101>>
                       \/ IsIntegerLiteral(t)
               THEN <<<<>>, "json.UnmarshalTypeError">>
               ELSE <<<<>>, "json.SyntaxError">>

---------------------------------------------------------------------------
(* Namespace                                                               *)

\* Namespace{}: the zero value of [3]byte.
ZeroNamespace == Zeros(nsLength)

NewNamespace(v) ==
    IF Len(v) # nsLength THEN <<ZeroNamespace, "errNamespaceSize">>
    ELSE <<v, "nil">>

\* MustNamespace panics on an error; it is applied to valid literals only.
MustNamespace(v) == Val(NewNamespace(v))

Unknown == MustNamespace(str_unk)

NamespaceAppend(n, b) == b \o n

NamespaceRaw(n) == n

NamespaceBytes(n) == NamespaceAppend(n, <<>>)

NamespaceString(n) == NamespaceAppend(n, <<>>)

\* Namespace.Equal: the dynamic type of `that` is kind; bytes.Equal is
\* equality of length and content.
NamespaceEqual(n, kind, v) ==
    IF kind \in {"Namespace", "[3]byte", "[]byte", "string"}
    THEN NamespaceRaw(n) = v
    ELSE FALSE

---------------------------------------------------------------------------
(* ID                                                                      *)

\* type ID struct { ns Namespace; ksuid ksuid.KSUID }: the pair <<ns, ksuid>>.
IDns(i) == i[1]

IDksuid(i) == i[2]

\* ID{}: the zero value.
ZeroID == <<ZeroNamespace, ksuidNil>>

Nil == <<Unknown, ksuidNil>>

\* FromBytes that forgets to stamp a bare KSUID with Unknown.
FromBytesBareUnstamped(b) ==
    IF Len(b) = byteLength
    THEN LET r == ksuidFromBytes(Slice(b, nsLength, Len(b)))
         IN IF Err(r) # "nil" THEN <<ZeroID, Err(r)>>
            ELSE <<<<Slice(b, 0, nsLength), Val(r)>>, "nil">>
    ELSE LET r == ksuidFromBytes(b)
         IN IF Err(r) # "nil" THEN <<ZeroID, Err(r)>>
            ELSE <<<<ZeroNamespace, Val(r)>>, "nil">>

FromBytes(b) ==
    IF Len(b) = byteLength
    THEN LET r == ksuidFromBytes(Slice(b, nsLength, Len(b)))
         IN IF Err(r) # "nil" THEN <<ZeroID, Err(r)>>
            ELSE <<<<Slice(b, 0, nsLength), Val(r)>>, "nil">>
    ELSE LET r == ksuidFromBytes(b)
         IN IF Err(r) # "nil" THEN <<ZeroID, Err(r)>>
            ELSE <<<<Unknown, Val(r)>>, "nil">>

\* Parse that stamps every string with Unknown, namespaced or not.
ParseDropsNamespace(s) ==
    IF Len(s) = stringEncodedLength - nsLength
    THEN LET r == ksuidParse(s)
         IN IF Err(r) # "nil" THEN <<ZeroID, Err(r)>>
            ELSE <<<<Unknown, Val(r)>>, "nil">>
    ELSE IF Len(s) # stringEncodedLength
    THEN <<ZeroID, "errStringSize">>
    ELSE LET r == ksuidParse(Slice(s, nsLength, Len(s)))
         IN IF Err(r) # "nil" THEN <<ZeroID, Err(r)>>
            ELSE <<<<Unknown, Val(r)>>, "nil">>

\* Parse whose length check is `length < stringEncodedLength`.
ParseLooseLength(s) ==
    IF Len(s) = stringEncodedLength - nsLength
    THEN LET r == ksuidParse(s)
         IN IF Err(r) # "nil" THEN <<ZeroID, Err(r)>>
            ELSE <<<<Unknown, Val(r)>>, "nil">>
    ELSE IF Len(s) < stringEncodedLength
    THEN <<ZeroID, "errStringSize">>
    ELSE LET n == NewNamespace(Slice(s, 0, nsLength))
             r == ksuidParse(Slice(s, nsLength, Len(s)))
         IN IF Err(n) # "nil" THEN <<ZeroID, Err(n)>>
            ELSE IF Err(r) # "nil" THEN <<ZeroID, Err(r)>>
            ELSE <<<<Val(n), Val(r)>>, "nil">>

Parse(s) ==
    IF Len(s) = stringEncodedLength - nsLength
    THEN LET r == ksuidParse(s)
         IN IF Err(r) # "nil" THEN <<ZeroID, Err(r)>>
            ELSE <<<<Unknown, Val(r)>>, "nil">>
    ELSE IF Len(s) # stringEncodedLength
    THEN <<ZeroID, "errStringSize">>
    ELSE LET n == NewNamespace(Slice(s, 0, nsLength))
             r == ksuidParse(Slice(s, nsLength, Len(s)))
         IN IF Err(n) # "nil" THEN <<ZeroID, Err(n)>>
            ELSE IF Err(r) # "nil" THEN <<ZeroID, Err(r)>>
            ELSE <<<<Val(n), Val(r)>>, "nil">>

NewRandomWithTime(ns, t, payload, randOk) ==
    LET r == ksuidNewRandomWithTime(t, payload, randOk)
    IN IF Err(r) # "nil" THEN <<ZeroID, Err(r)>>
       ELSE <<<<ns, Val(r)>>, "nil">>

\* NewRandom: NewRandomWithTime at time.Now(), here now.
NewRandom(ns, now, payload, randOk) == NewRandomWithTime(ns, now, payload, randOk)

\* New: NewRandom, whose error is a panic.
New(ns, now, payload, randOk) ==
    LET r == NewRandom(ns, now, payload, randOk)
    IN IF Err(r) # "nil" THEN <<ZeroID, "panic">> ELSE r

\* Append that writes the raw 20 bytes instead of the string form.
AppendRaw(i, b) == (b \o IDns(i)) \o IDksuid(i)

IDAppend(i, b) == ksuidAppend(IDksuid(i), b \o IDns(i))

\* Bytes built with the delegated append, as Append is.
BytesViaAppend(i) == ksuidAppend(IDksuid(i), NamespaceAppend(IDns(i), <<>>))

Bytes(i) == NamespaceAppend(IDns(i), <<>>) \o IDksuid(i)

Equal(i, that) == NamespaceEqual(IDns(i), "Namespace", IDns(that)) /\ IDksuid(i) = IDksuid(that)

\* IsNil that looks at the embedded KSUID only.
IsNilIgnoresNamespace(i) == ksuidIsNil(IDksuid(i))

IsNil(i) == NamespaceEqual(IDns(i), "Namespace", Unknown) /\ ksuidIsNil(IDksuid(i))

MarshalJSON(i) == Append(IDAppend(i, <<Quote>>), Quote)

KSUID(i) == IDksuid(i)

Namespace(i) == IDns(i)

String(i) == IDAppend(i, <<>>)

\* Time that reads the timestamp least significant byte first.
TimeLittleEndian(i) ==
    <<IDksuid(i)[4] * 256 + IDksuid(i)[3], IDksuid(i)[2] * 256 + IDksuid(i)[1]>>

Time(i) == ksuidTimestamp(IDksuid(i))

\* UnmarshalJSON that treats the token null as a no-op.
UnmarshalJSONNullNoOp(i, b) ==
    LET j == jsonUnmarshalString(b)
        r == Parse(Val(j))
    IN IF Err(j) # "nil" THEN <<i, Err(j)>>
       ELSE IF Val(j) = <<>>
       THEN <<IF \E k \in 1..Len(b) : b[k] = Quote THEN Nil ELSE i, "nil">>
       ELSE IF Err(r) # "nil" THEN <<i, Err(r)>>
       ELSE <<Val(r), "nil">>

\* UnmarshalJSON that stores Parse's result before looking at its error.
UnmarshalJSONAssignsFirst(i, b) ==
    LET j == jsonUnmarshalString(b)
        r == Parse(Val(j))
    IN IF Err(j) # "nil" THEN <<i, Err(j)>>
       ELSE IF Val(j) = <<>> THEN <<Nil, "nil">>
       ELSE <<Val(r), Err(r)>>

\* UnmarshalJSON on the receiver i: the receiver after the call, and the error.
UnmarshalJSON(i, b) ==
    LET j == jsonUnmarshalString(b)
        r == Parse(Val(j))
    IN IF Err(j) # "nil" THEN <<i, Err(j)>>
       ELSE IF Val(j) = <<>> THEN <<Nil, "nil">>
       ELSE IF Err(r) # "nil" THEN <<i, Err(r)>>
       ELSE <<Val(r), "nil">>

---------------------------------------------------------------------------
(* Inputs                                                                  *)

\* Namespaces a caller builds with NewNamespace / MustNamespace.
Namespaces == {MustNamespace(v) : v \in {str_unk, str_aqb, str_raw}}

\* Data from outside the package: strings, byte slices and JSON documents.
ExternInputs ==
    { <<>>, str_blah, str_invalid_ksuid,
      Repeat(122, 27), str_bla \o Repeat(122, 27),
      Repeat(48, 26), Repeat(48, 28), Repeat(48, 29), Repeat(48, 31),
      Zeros(5), Zeros(22),
      str_null, <<Quote, Quote>>, str_123, str_true,
      <<Quote>> \o str_invalid_ksuid,
      <<Quote>> \o str_invalid_ksuid \o <<Quote>>,
      <<Quote>> \o Repeat(122, 27) \o <<Quote>>,
      <<Quote>> \o str_bla \o Repeat(122, 27) \o <<Quote>> }

---------------------------------------------------------------------------
(* The caller's state                                                      *)
(*   val    the ID the caller holds (the receiver of the methods)          *)
(*   err    the error of the last operation that returns one               *)
(*   op     the last operation; a decoder named here has read buf as it is *)
(*   buf    the string / byte slice the caller holds                       *)
(*   bufOp  what produced buf                                              *)
(*   bufOf  the ID that buf was produced from (ZeroID for outside data)    *)

Init ==
    /\ val = ZeroID
    /\ err = "nil"
    /\ op = "init"
    /\ buf = <<>>
    /\ bufOp = "init"
    /\ bufOf = ZeroID

Running == op # "panic"

Construct(r, name) ==
    /\ Running
    /\ val' = Val(r)
    /\ err' = Err(r)
    /\ op' = name
    /\ UNCHANGED <<buf, bufOp, bufOf>>

Encode(b, name) ==
    /\ Running
    /\ buf' = b
    /\ bufOp' = name
    /\ bufOf' = val
    /\ op' = name
    /\ UNCHANGED <<val, err>>

DoNewRandomWithTime ==
    \E ns \in Namespaces, t \in Times, p \in Payloads, ok \in BOOLEAN :
        Construct(NewRandomWithTime(ns, t, p, ok), "NewRandomWithTime")

DoNewRandom ==
    \E ns \in Namespaces, p \in Payloads, ok \in BOOLEAN :
        Construct(NewRandom(ns, Now, p, ok), "NewRandom")

DoNew ==
    \E ns \in Namespaces, p \in Payloads, ok \in BOOLEAN :
        LET r == New(ns, Now, p, ok)
        IN Construct(r, IF Err(r) = "panic" THEN "panic" ELSE "New")

DoFromBytes == Construct(FromBytes(buf), "FromBytes")

DoParse == Construct(Parse(buf), "Parse")

DoUnmarshalJSON == Construct(UnmarshalJSON(val, buf), "UnmarshalJSON")

DoAppend == Encode(IDAppend(val, <<>>), "Append")

DoBytes == Encode(Bytes(val), "Bytes")

DoString == Encode(String(val), "String")

DoMarshalJSON == Encode(MarshalJSON(val), "MarshalJSON")

\* id.KSUID().Bytes() and id.KSUID().String(): the bare forms.
DoKSUIDBytes == Encode(KSUID(val), "KSUID.Bytes")

DoKSUIDString == Encode(ksuidString(KSUID(val)), "KSUID.String")

Supply ==
    /\ Running
    /\ \E b \in ExternInputs : buf' = b
    /\ bufOp' = "extern"
    /\ bufOf' = ZeroID
    /\ op' = "Supply"
    /\ UNCHANGED <<val, err>>

Next ==
    \/ DoNewRandomWithTime
    \/ DoNewRandom
    \/ DoNew
    \/ DoFromBytes
    \/ DoParse
    \/ DoUnmarshalJSON
    \/ DoAppend
    \/ DoBytes
    \/ DoString
    \/ DoMarshalJSON
    \/ DoKSUIDBytes
    \/ DoKSUIDString
    \/ Supply

Spec == Init /\ [][Next]_vars

---------------------------------------------------------------------------
(* Properties                                                              *)

\* bytes.Compare(a, b) < 0.
LexLess(a, b) ==
    \E k \in 1..Len(b) :
        /\ \A j \in 1..(k - 1) : j <= Len(a) /\ a[j] = b[j]
        /\ (k = Len(a) + 1 \/ (k <= Len(a) /\ a[k] < b[k]))

IsBase62(c) == (c >= 48 /\ c <= 57) \/ (c >= 65 /\ c <= 90) \/ (c >= 97 /\ c <= 122)

MintOps == {"NewRandomWithTime", "NewRandom", "New"}

\* The IDs that minting with a namespace from NewNamespace can return.
Minted == {<<n, k>> : n \in Namespaces, k \in MintableKSUIDs}

\* C1: Parse of the String() of an ID returns no error and an ID Equal to
\* it: the same namespace bytes and the same 20 KSUID bytes.
C1_StringRoundTrip ==
    (op = "Parse" /\ bufOp = "String") =>
        /\ err = "nil"
        /\ Equal(val, bufOf)
        /\ Namespace(val) = Namespace(bufOf)
        /\ KSUID(val) = KSUID(bufOf)

\* A minted ID with the non-ASCII namespace and a wrapped timestamp was
\* printed and parsed.
C1_Witness ==
    /\ op = "Parse" /\ bufOp = "String"
    /\ bufOf \in Minted /\ IDns(bufOf) = str_raw /\ IDksuid(bufOf)[1] = 255

\* C2: Bytes() is 23 bytes long and FromBytes of it returns no error and an
\* ID Equal to the original, bytes [0,3) being the namespace and bytes
\* [3,23) the KSUID.
C2_BinaryRoundTrip ==
    /\ bufOp = "Bytes" => Len(buf) = byteLength
    /\ (op = "FromBytes" /\ bufOp = "Bytes") =>
        /\ err = "nil"
        /\ Equal(val, bufOf)
        /\ Namespace(val) = Slice(buf, 0, nsLength)
        /\ KSUID(val) = Slice(buf, nsLength, byteLength)
        /\ Namespace(val) = Namespace(bufOf)
        /\ KSUID(val) = KSUID(bufOf)

C2_Witness ==
    /\ op = "FromBytes" /\ bufOp = "Bytes"
    /\ bufOf \in Minted /\ IDns(bufOf) = str_aqb /\ IDksuid(bufOf)[1] = 255

\* C3: UnmarshalJSON of the MarshalJSON of any non-nil ID whose namespace
\* NewNamespace can produce returns no error and an Equal ID.
C3_JSONRoundTrip ==
    (op = "UnmarshalJSON" /\ bufOp = "MarshalJSON"
        /\ bufOf \in Minted /\ ~IsNil(bufOf)) =>
        (err = "nil" /\ Equal(val, bufOf))

\* C4 as stated: Append into an empty buffer gives the bytes of Bytes().
C4_AppendEqualsBytes ==
    bufOp = "Append" => buf = Bytes(bufOf)

\* C4, amended: Bytes() is the 3 namespace bytes and the 20 raw KSUID bytes
\* (23 bytes); Append into an empty buffer is the 3 namespace bytes and the
\* 27 base-62 characters of the KSUID (30 bytes, the bytes of String()).
C4_AppendIsStringForm ==
    /\ bufOp = "Bytes" =>
        /\ Len(buf) = byteLength
        /\ Slice(buf, 0, nsLength) = IDns(bufOf)
        /\ Slice(buf, nsLength, byteLength) = IDksuid(bufOf)
    /\ bufOp = "Append" =>
        /\ Len(buf) = stringEncodedLength
        /\ Slice(buf, 0, nsLength) = IDns(bufOf)
        /\ \A k \in (nsLength + 1)..Len(buf) : IsBase62(buf[k])
        /\ ksuidParse(Slice(buf, nsLength, Len(buf)))
               = <<IDksuid(bufOf), "nil">>

C4_Witness ==
    bufOp = "Append" /\ bufOf \in Minted /\ IDksuid(bufOf) # ksuidNil

\* C5: FromBytes of a 20-byte KSUID and Parse of a KSUID's 27-character
\* string succeed with namespace Unknown ("unk") and exactly that KSUID.
C5_BareForms ==
    /\ (op = "FromBytes" /\ bufOp = "KSUID.Bytes") =>
        /\ err = "nil"
        /\ NamespaceEqual(Namespace(val), "string", str_unk)
        /\ KSUID(val) = buf
    /\ (op = "Parse" /\ bufOp = "KSUID.String") =>
        /\ err = "nil"
        /\ NamespaceEqual(Namespace(val), "string", str_unk)
        /\ KSUID(val) = KSUID(bufOf)

C5_Witness ==
    /\ op = "Parse" /\ bufOp = "KSUID.String"
    /\ bufOf \in Minted /\ IDns(bufOf) # str_unk /\ IDksuid(bufOf) # ksuidNil

C7_NullYieldsZero ==
    (op = "UnmarshalJSON" /\ buf = str_null) => (err = "nil" /\ val = ZeroID)

\* C7, amended: UnmarshalJSON of null returns no error and stores Nil
\* (Unknown namespace, all-zero KSUID), as the empty JSON string does.
C7_NullYieldsNil ==
    (op = "UnmarshalJSON" /\ buf \in {str_null, <<Quote, Quote>>}) =>
        /\ err = "nil"
        /\ Namespace(val) = str_unk
        /\ KSUID(val) = Zeros(baseLength)

C7_Witness ==
    op = "UnmarshalJSON" /\ buf = str_null /\ err = "nil" /\ val = Nil

\* C8 as stated: IsNil holds exactly for Unknown + all-zero KSUID, holds of
\* Nil, and fails for every minted ID.
C8_MintedNeverNil ==
    /\ IsNil(val) <=> (IDns(val) = str_unk /\ IDksuid(val) = Zeros(baseLength))
    /\ IsNil(Nil)
    /\ (op \in MintOps /\ err = "nil") => ~IsNil(val)

\* C8, amended: as stated, except that a minted ID is nil when its
\* namespace is Unknown, its time is the custom epoch and the entropy source
\* returned sixteen zero bytes.
C8_IsNilExactlyNil ==
    /\ IsNil(val) <=> (IDns(val) = str_unk /\ IDksuid(val) = Zeros(baseLength))
    /\ IsNil(Nil)
    /\ (op \in MintOps /\ err = "nil"
          /\ (IDns(val) # str_unk \/ SubSeq(IDksuid(val), 1, 4) # Zeros(4)
                \/ SubSeq(IDksuid(val), 5, baseLength) # Zeros(16)))
        => ~IsNil(val)

\* An ID minted at the custom epoch with a zero payload, in another namespace.
C8_Witness ==
    /\ op = "NewRandomWithTime" /\ err = "nil"
    /\ IDns(val) = str_aqb /\ IDksuid(val) = Zeros(baseLength)

\* C9: of two IDs of one namespace whose timestamps differ, the one with the
\* earlier Time() has the lexicographically smaller Bytes().
C9_TimeOrdered ==
    (bufOp = "Bytes" /\ Namespace(val) = Namespace(bufOf)
        /\ SubSeq(IDksuid(val), 1, 4) # SubSeq(IDksuid(bufOf), 1, 4)) =>
        (Before(Time(val), Time(bufOf)) <=> LexLess(Bytes(val), buf))

\* Timestamp 1 against the wrapped timestamp 2^32 - 256, the later ID having
\* the smaller payload.
C9_Witness ==
    /\ bufOp = "Bytes" /\ Namespace(val) = Namespace(bufOf)
    /\ SubSeq(IDksuid(val), 1, 4) = <<0, 0, 0, 1>>
    /\ SubSeq(IDksuid(bufOf), 1, 4) = <<255, 255, 255, 0>>
    /\ LexLess(SubSeq(IDksuid(bufOf), 5, baseLength), SubSeq(IDksuid(val), 5, baseLength))

\* C10: an UnmarshalJSON that returns an error leaves the receiver as it
\* was, and a FromBytes or Parse that returns an error returns ID{}.
C10_NoPartialMutation ==
    [][ /\ (op' = "UnmarshalJSON" /\ err' # "nil") => val' = val
        /\ (op' \in {"FromBytes", "Parse"} /\ err' # "nil") => val' = ZeroID ]_vars

\* A namespaced JSON string with an undecodable KSUID part was refused by a
\* receiver that held a minted ID.
C10_Witness ==
    /\ op = "UnmarshalJSON" /\ err = "ksuid.errStrValue"
    /\ Len(buf) = stringEncodedLength + 2
    /\ val \in Minted /\ IDksuid(val) # ksuidNil

=============================================================================
